---------------------------- MODULE Spec2Model ----------------------------
(***************************************************************************)
(* Model of NAS.py: the Streamlit script that acquires a text (typed text, *)
(* URL, PDF upload or reference digest), summarizes it chunk by chunk with *)
(* a Hugging Face pipeline chosen by the summary length, renders the       *)
(* summary and then renders a gTTS audio rendition of it.                  *)
(*                                                                         *)
(* A Python str is modelled as a sequence of atoms. An atom is a one-      *)
(* character string; in the fixed digest preamble an atom may also stand   *)
(* for a whole run of non-whitespace characters. Whitespace atoms are      *)
(* exactly the members of Whitespace.                                      *)
(***************************************************************************)
EXTENDS Integers, Sequences, FiniteSets, TLC

VARIABLES
    pc,               \* position of the script run / of safe_generate_summary
    input_type,       \* st.radio value                       (line 121)
    summary_length,   \* st.selectbox value / length argument (line 124)
    user_text,        \* st.text_area value                   (line 127)
    url,              \* st.text_input value                  (line 129)
    pdf_file,         \* st.file_uploader value               (line 131)
    digest_input,     \* st.text_area value                   (line 133)
    text,             \* extracted text                       (lines 143-151)
    summarizer,       \* summarizer.model.name_or_path, <<>> while not constructed
    max_input_words,  \* per-chunk word limit, 0 while not selected
    chunks,           \* list of chunk strings                (lines 39-42)
    summaries,        \* list of stripped per-chunk summaries (lines 44-52)
    calls,            \* log of the summarizer invocations    (lines 46-51)
    summary,          \* value returned by safe_generate_summary
    tts_calls,        \* number of gTTS constructions         (line 57)
    audio_path,       \* path returned by generate_audio, <<>> while none
    rendered,         \* elements currently shown on the page
    error             \* kind of the error that ended the run, "none" otherwise

vars == << pc, input_type, summary_length, user_text, url, pdf_file,
           digest_input, text, summarizer, max_input_words, chunks,
           summaries, calls, summary, tts_calls, audio_path, rendered, error >>

-----------------------------------------------------------------------------
(* Bounds of the model.                                                     *)

\* longest enumerated input string, in atoms
MaxLen == 3

\* largest number of <p> elements of a fetched page / pages of a PDF
MaxParts == 2

\* largest free word limit tried on the chunker alone
MaxLimit == 3

\* longest enumerated text given to the chunker alone, in atoms
MaxChunkLen == 7

-----------------------------------------------------------------------------
(* Program constants.                                                       *)

\* max_input_words of the branch taken when "long-t5" is in the model name
LongContextWords == 8000

\* max_input_words of the other branch
StandardWords == 700

\* absolute floor of min_length
MinLengthFloor == 20

\* the values the summary-length selectbox offers
SummaryLengths == {60, 150, 500}

\* the values the input-type radio offers
InputTypes == {"Text", "URL", "PDF Upload", "LongT5 Article Digest"}

ModelShort == <<"g","o","o","g","l","e","/","f","l","a","n","-","t","5","-","b","a","s","e">>

ModelMedium == <<"g","o","o","g","l","e","/","p","e","g","a","s","u","s","-","c","n","n","_","d","a","i","l","y","m","a","i","l">>

ModelLong == <<"p","s","z","e","m","r","a","j","/","l","e","d","-","l","a","r","g","e","-","b","o","o","k","-","s","u","m","m","a","r","y">>

LongT5Marker == <<"l","o","n","g","-","t","5">>

DigestPreamble == <<"Summarize", " ", "the", " ", "newspaper", " ", "article", " ", "reference", " ", "list", " ", "by", " ", "grouping", " ", "them", " ", "by", " ", "source", " ", "and", " ", "ordering", " ", "by", " ", "date:", "\n">>

-----------------------------------------------------------------------------
(* Python str operations.                                                   *)

Whitespace == {" ", "\n", "\t"}

Min(a, b) == IF a < b THEN a ELSE b

Max(a, b) == IF a < b THEN b ELSE a

\* positions of s in lo..hi where a word begins, in increasing order
RECURSIVE WordStarts(_, _, _)
WordStarts(s, lo, hi) ==
    IF lo > hi THEN <<>>
    ELSE IF lo = hi
         THEN IF s[lo] \notin Whitespace /\ (lo = 1 \/ s[lo - 1] \in Whitespace)
              THEN <<lo>> ELSE <<>>
         ELSE LET mid == (lo + hi) \div 2
              IN  WordStarts(s, lo, mid) \o WordStarts(s, mid + 1, hi)

\* positions of s in lo..hi where a word ends, in increasing order
RECURSIVE WordEnds(_, _, _)
WordEnds(s, lo, hi) ==
    IF lo > hi THEN <<>>
    ELSE IF lo = hi
         THEN IF s[lo] \notin Whitespace /\ (lo = Len(s) \/ s[lo + 1] \in Whitespace)
              THEN <<lo>> ELSE <<>>
         ELSE LET mid == (lo + hi) \div 2
              IN  WordEnds(s, lo, mid) \o WordEnds(s, mid + 1, hi)

\* s.split(): the maximal runs of non-whitespace, in order
Split(s) ==
    LET b == WordStarts(s, 1, Len(s))
        e == WordEnds(s, 1, Len(s))
    IN  [k \in 1..Len(b) |-> SubSeq(s, b[k], e[k])]

\* " ".join(parts[lo..hi])
RECURSIVE JoinRange(_, _, _)
JoinRange(parts, lo, hi) ==
    IF lo > hi THEN <<>>
    ELSE IF lo = hi THEN parts[lo]
    ELSE LET mid == (lo + hi) \div 2
         IN  JoinRange(parts, lo, mid) \o <<" ">> \o JoinRange(parts, mid + 1, hi)

\* " ".join(parts)
Join(parts) == JoinRange(parts, 1, Len(parts))

\* s.strip()
Strip(s) ==
    LET keep == {i \in 1..Len(s) : s[i] \notin Whitespace}
    IN  IF keep = {} THEN <<>>
        ELSE LET first == CHOOSE i \in keep : \A j \in keep : i <= j
                 last  == CHOOSE i \in keep : \A j \in keep : j <= i
             IN  SubSeq(s, first, last)

UpperCase == {"A","B","C","D","E","F","G","H","I","J","K","L","M","N","O","P","Q","R","S","T","U","V","W","X","Y","Z"}

LowerOf == [c \in UpperCase |->
    CASE c = "A" -> "a" [] c = "B" -> "b" [] c = "C" -> "c" [] c = "D" -> "d"
      [] c = "E" -> "e" [] c = "F" -> "f" [] c = "G" -> "g" [] c = "H" -> "h"
      [] c = "I" -> "i" [] c = "J" -> "j" [] c = "K" -> "k" [] c = "L" -> "l"
      [] c = "M" -> "m" [] c = "N" -> "n" [] c = "O" -> "o" [] c = "P" -> "p"
      [] c = "Q" -> "q" [] c = "R" -> "r" [] c = "S" -> "s" [] c = "T" -> "t"
      [] c = "U" -> "u" [] c = "V" -> "v" [] c = "W" -> "w" [] c = "X" -> "x"
      [] c = "Y" -> "y" [] c = "Z" -> "z"]

\* s.lower()
Lower(s) == [i \in 1..Len(s) |-> IF s[i] \in UpperCase THEN LowerOf[s[i]] ELSE s[i]]

\* needle in s
Contains(s, needle) ==
    \E i \in 0..(Len(s) - Len(needle)) : SubSeq(s, i + 1, i + Len(needle)) = needle

-----------------------------------------------------------------------------
(* The functions of NAS.py.                                                 *)

\* what a raising call leaves in place of a model name
NoModel == <<>>

\* get_summarizer with the else branch falling back to the short model
get_summarizer_fallback(length) ==
    IF length = 150 THEN [raised |-> FALSE, model |-> ModelMedium]
    ELSE IF length = 500 THEN [raised |-> FALSE, model |-> ModelLong]
    ELSE [raised |-> FALSE, model |-> ModelShort]

\* get_summarizer: the model the pipeline is built from, or a ValueError
get_summarizer(length) ==
    IF length = 60 THEN [raised |-> FALSE, model |-> ModelShort]
    ELSE IF length = 150 THEN [raised |-> FALSE, model |-> ModelMedium]
    ELSE IF length = 500 THEN [raised |-> FALSE, model |-> ModelLong]
    ELSE [raised |-> TRUE, model |-> NoModel]

\* the chunk size chosen from the model name
select_max_input_words(name_or_path) ==
    IF Contains(Lower(name_or_path), LongT5Marker)
    THEN LongContextWords
    ELSE StandardWords

\* range with the stop value included
RECURSIVE RangeInclusive(_, _, _)
RangeInclusive(start, stop, step) ==
    IF start > stop THEN <<>>
    ELSE <<start>> \o RangeInclusive(start + step, stop, step)

\* range(start, stop, step) for step > 0
RECURSIVE Range(_, _, _)
Range(start, stop, step) ==
    IF start >= stop THEN <<>>
    ELSE <<start>> \o Range(start + step, stop, step)

\* s[i:j] for 0 <= i <= j
Slice(s, i, j) == SubSeq(s, i + 1, Min(j, Len(s)))

\* make_chunks with the slice one word short
make_chunks_short(txt, limit) ==
    LET words == Split(txt)
        r     == Range(0, Len(words), limit)
    IN  [k \in 1..Len(r) |-> Join(Slice(words, r[k], r[k] + limit - 1))]

\* make_chunks with the slice one word long
make_chunks_long(txt, limit) ==
    LET words == Split(txt)
        r     == Range(0, Len(words), limit)
    IN  [k \in 1..Len(r) |-> Join(Slice(words, r[k], r[k] + limit + 1))]

\* the chunks built from text with the given word limit
make_chunks(txt, limit) ==
    LET words == Split(txt)
        r     == Range(0, Len(words), limit)
    IN  [k \in 1..Len(r) |-> Join(Slice(words, r[k], r[k] + limit))]

\* int(length * 0.8) for length >= 0
ScaledLength(length) == (length * 8) \div 10

\* min_length with min() in place of max()
min_length_of_min(length) == Min(MinLengthFloor, ScaledLength(length))

\* the min_length argument of a summarizer call
min_length_of(length) == Max(MinLengthFloor, ScaledLength(length))

\* the max_length argument of a summarizer call
max_length_of(length) == length

\* the summarizer result kept without strip()
kept_summary_raw(out) == out

\* the summary appended for one summarizer result
kept_summary(out) == Strip(out)

\* the value safe_generate_summary returns
final_summary(parts) == Join(parts)

\* extract_text_from_url, given the texts of the page's <p> elements
extract_text_from_url(paragraphs) == Join(paragraphs)

HasText(page) == page # <<>>

\* extract_text_from_pdf, given extract_text() of each page
extract_text_from_pdf(pages) == Join(SelectSeq(pages, HasText))

\* the text of the reference-digest input type
digest_text(refs) == DigestPreamble \o refs

-----------------------------------------------------------------------------
(* Inputs and outcomes of the external calls.                               *)

Alphabet == {"a", "b", " ", "\n"}

Strings(n) == UNION {[1..k -> Alphabet] : k \in 0..n}

\* a text of n one-atom words separated by single spaces
WordsText(n) ==
    [i \in 1..(2 * n - 1) |->
        IF i % 2 = 0 THEN " " ELSE IF i % 4 = 1 THEN "a" ELSE "b"]

\* two full standard chunks and one more word
LongInput == WordsText(2 * StandardWords + 1)

UserTexts == Strings(MaxLen) \cup {LongInput}

Urls == {<<>>, <<"u">>}

PartTexts == Strings(1)

\* texts of the <p> elements of a page / of the pages of a PDF
PartLists == UNION {[1..k -> PartTexts] : k \in 0..MaxParts}

NoFile == [present |-> FALSE, readable |-> FALSE, pages |-> <<>>]

PdfFiles ==
    {[present |-> TRUE, readable |-> TRUE, pages |-> ps] : ps \in PartLists}
    \cup {[present |-> TRUE, readable |-> FALSE, pages |-> <<>>], NoFile}

DigestInputs == Strings(1)

\* summary_text values a summarizer call may produce; min_length >= 20 makes
\* the model emit tokens, so every value has a non-whitespace atom
SummaryOutputs == {<<"s">>, <<" ", "s", "\n">>, <<"s", " ", "t">>}

AudioFile == <<"tmp.mp3">>

-----------------------------------------------------------------------------
(* The script run.                                                          *)

\* a script run in which the generate button is not pressed shows no output
Init ==
    /\ pc = "idle"
    /\ input_type = "Text"
    /\ summary_length = 60
    /\ user_text = <<>>
    /\ url = <<>>
    /\ pdf_file = NoFile
    /\ digest_input = <<>>
    /\ text = <<>>
    /\ summarizer = NoModel
    /\ max_input_words = 0
    /\ chunks = <<>>
    /\ summaries = <<>>
    /\ calls = <<>>
    /\ summary = <<>>
    /\ tts_calls = 0
    /\ audio_path = <<>>
    /\ rendered = {}
    /\ error = "none"

\* the widget values of a run; a widget that is not shown keeps its empty value
Widgets(it, len, ut, u, pf, di) ==
    /\ input_type' = it
    /\ summary_length' = len
    /\ user_text' = ut
    /\ url' = u
    /\ pdf_file' = pf
    /\ digest_input' = di

Untouched ==
    UNCHANGED << summarizer, max_input_words, chunks, summaries, calls,
                 summary, tts_calls, audio_path, rendered >>

\* generate pressed, input type Text with a non-empty text
GenerateText ==
    /\ pc = "idle"
    /\ \E len \in SummaryLengths, ut \in UserTexts :
        /\ ut # <<>>
        /\ Widgets("Text", len, ut, <<>>, NoFile, <<>>)
        /\ text' = ut
    /\ pc' = "summarize"
    /\ UNCHANGED error
    /\ Untouched

\* generate pressed, input type URL with a non-empty URL
GenerateUrl ==
    /\ pc = "idle"
    /\ \E len \in SummaryLengths, u \in Urls :
        /\ u # <<>>
        /\ Widgets("URL", len, <<>>, u, NoFile, <<>>)
    /\ pc' = "extract_url"
    /\ UNCHANGED << text, error >>
    /\ Untouched

\* generate pressed, input type PDF Upload with an uploaded file
GeneratePdf ==
    /\ pc = "idle"
    /\ \E len \in SummaryLengths, pf \in PdfFiles :
        /\ pf.present
        /\ Widgets("PDF Upload", len, <<>>, <<>>, pf, <<>>)
    /\ pc' = "extract_pdf"
    /\ UNCHANGED << text, error >>
    /\ Untouched

\* generate pressed, input type LongT5 Article Digest with a non-empty text
GenerateDigest ==
    /\ pc = "idle"
    /\ \E len \in SummaryLengths, di \in DigestInputs :
        /\ di # <<>>
        /\ Widgets("LongT5 Article Digest", len, <<>>, <<>>, NoFile, di)
        /\ text' = digest_text(di)
    /\ pc' = "summarize"
    /\ UNCHANGED error
    /\ Untouched

\* generate pressed with an empty payload: st.error and st.stop
GenerateInvalid ==
    /\ pc = "idle"
    /\ \E len \in SummaryLengths, it \in InputTypes :
        Widgets(it, len, <<>>, <<>>, NoFile, <<>>)
    /\ error' = "InvalidInput"
    /\ pc' = "stopped"
    /\ UNCHANGED text
    /\ Untouched

Rest == << input_type, summary_length, user_text, url, pdf_file, digest_input >>

\* requests.get and the parse succeed
ExtractUrl ==
    /\ pc = "extract_url"
    /\ \E paragraphs \in PartLists : text' = extract_text_from_url(paragraphs)
    /\ pc' = "summarize"
    /\ UNCHANGED << Rest, error >>
    /\ Untouched

\* requests.get raises
ExtractUrlFails ==
    /\ pc = "extract_url"
    /\ error' = "ExtractionFailure"
    /\ pc' = "failed"
    /\ UNCHANGED << Rest, text >>
    /\ Untouched

\* PdfReader reads the upload
ExtractPdf ==
    /\ pc = "extract_pdf"
    /\ pdf_file.readable
    /\ text' = extract_text_from_pdf(pdf_file.pages)
    /\ pc' = "summarize"
    /\ UNCHANGED << Rest, error >>
    /\ Untouched

\* PdfReader raises
ExtractPdfFails ==
    /\ pc = "extract_pdf"
    /\ ~pdf_file.readable
    /\ error' = "ExtractionFailure"
    /\ pc' = "failed"
    /\ UNCHANGED << Rest, text >>
    /\ Untouched

\* safe_generate_summary is entered and get_summarizer builds the pipeline
GetSummarizer ==
    /\ pc = "summarize"
    /\ ~get_summarizer(summary_length).raised
    /\ summarizer' = get_summarizer(summary_length).model
    /\ pc' = "select_limit"
    /\ UNCHANGED << Rest, text, max_input_words, chunks, summaries, calls,
                    summary, tts_calls, audio_path, rendered, error >>

\* get_summarizer raises ValueError
GetSummarizerInvalid ==
    /\ pc = "summarize"
    /\ get_summarizer(summary_length).raised
    /\ summarizer' = get_summarizer(summary_length).model
    /\ error' = "ValueError"
    /\ pc' = "failed"
    /\ UNCHANGED << Rest, text, max_input_words, chunks, summaries, calls,
                    summary, tts_calls, audio_path, rendered >>

\* pipeline() raises while loading the model
PipelineFails ==
    /\ pc = "summarize"
    /\ ~get_summarizer(summary_length).raised
    /\ error' = "SummarizationFailure"
    /\ pc' = "failed"
    /\ UNCHANGED << Rest, text >>
    /\ Untouched

\* the chunk size is set from the model name
SelectLimit ==
    /\ pc = "select_limit"
    /\ max_input_words' = select_max_input_words(summarizer)
    /\ pc' = "chunk"
    /\ UNCHANGED << Rest, text, summarizer, chunks, summaries, calls,
                    summary, tts_calls, audio_path, rendered, error >>

\* the text is split into words and the chunks are built
BuildChunks ==
    /\ pc = "chunk"
    /\ chunks' = make_chunks(text, max_input_words)
    /\ summaries' = <<>>
    /\ pc' = "loop"
    /\ UNCHANGED << Rest, text, summarizer, max_input_words, calls,
                    summary, tts_calls, audio_path, rendered, error >>

\* the invocation for the next chunk
Invocation(out, ok) ==
    [ chunk      |-> chunks[Len(summaries) + 1],
      max_length |-> max_length_of(summary_length),
      min_length |-> min_length_of(summary_length),
      do_sample  |-> FALSE,
      raised     |-> ~ok,
      out        |-> out ]

\* one iteration of the summarizing loop
SummarizeChunk ==
    /\ pc = "loop"
    /\ Len(summaries) < Len(chunks)
    /\ \E out \in SummaryOutputs :
        /\ calls' = Append(calls, Invocation(out, TRUE))
        /\ summaries' = Append(summaries, kept_summary(out))
    /\ UNCHANGED << pc, Rest, text, summarizer, max_input_words, chunks,
                    summary, tts_calls, audio_path, rendered, error >>

\* the summarizer raises on the next chunk
SummarizeChunkFails ==
    /\ pc = "loop"
    /\ Len(summaries) < Len(chunks)
    /\ calls' = Append(calls, Invocation(<<>>, FALSE))
    /\ error' = "SummarizationFailure"
    /\ pc' = "failed"
    /\ UNCHANGED << Rest, text, summarizer, max_input_words, chunks,
                    summaries, summary, tts_calls, audio_path, rendered >>

\* the loop is over and safe_generate_summary returns
ReturnSummary ==
    /\ pc = "loop"
    /\ Len(summaries) = Len(chunks)
    /\ summary' = final_summary(summaries)
    /\ pc' = "render_summary"
    /\ UNCHANGED << Rest, text, summarizer, max_input_words, chunks,
                    summaries, calls, tts_calls, audio_path, rendered, error >>

\* the summary card is written to the page
RenderSummary ==
    /\ pc = "render_summary"
    /\ rendered' = rendered \cup {"summary"}
    /\ pc' = "audio"
    /\ UNCHANGED << Rest, text, summarizer, max_input_words, chunks,
                    summaries, calls, summary, tts_calls, audio_path, error >>

\* generate_audio returns and the audio card is written to the page
GenerateAudio ==
    /\ pc = "audio"
    /\ Strip(summary) # <<>>
    /\ tts_calls' = tts_calls + 1
    /\ audio_path' = AudioFile
    /\ rendered' = rendered \cup {"audio", "download"}
    /\ pc' = "done"
    /\ UNCHANGED << Rest, text, summarizer, max_input_words, chunks,
                    summaries, calls, summary, error >>

\* gTTS raises: always for a text with nothing to speak, possibly otherwise
GenerateAudioFails ==
    /\ pc = "audio"
    /\ tts_calls' = tts_calls + 1
    /\ error' = "AudioSynthesisFailure"
    /\ pc' = "failed"
    /\ UNCHANGED << Rest, text, summarizer, max_input_words, chunks,
                    summaries, calls, summary, audio_path, rendered >>

\* the script runs again without the button pressed: the page is cleared
Rerun ==
    /\ pc \in {"done", "failed", "stopped"}
    /\ pc' = "idle"
    /\ input_type' = "Text"
    /\ summary_length' = 60
    /\ user_text' = <<>>
    /\ url' = <<>>
    /\ pdf_file' = NoFile
    /\ digest_input' = <<>>
    /\ text' = <<>>
    /\ summarizer' = NoModel
    /\ max_input_words' = 0
    /\ chunks' = <<>>
    /\ summaries' = <<>>
    /\ calls' = <<>>
    /\ summary' = <<>>
    /\ tts_calls' = 0
    /\ audio_path' = <<>>
    /\ rendered' = {}
    /\ error' = "none"

Next ==
    \/ GenerateText
    \/ GenerateUrl
    \/ GeneratePdf
    \/ GenerateDigest
    \/ GenerateInvalid
    \/ ExtractUrl
    \/ ExtractUrlFails
    \/ ExtractPdf
    \/ ExtractPdfFails
    \/ GetSummarizer
    \/ PipelineFails
    \/ SelectLimit
    \/ BuildChunks
    \/ SummarizeChunk
    \/ SummarizeChunkFails
    \/ ReturnSummary
    \/ RenderSummary
    \/ GenerateAudio
    \/ GenerateAudioFails
    \/ Rerun

\* the application: summary_length only takes the values of the selectbox
Spec == Init /\ [][Next]_vars


-----------------------------------------------------------------------------
(* safe_generate_summary called on its own, with any length argument.       *)

InvalidLengths == {-1, 0, 59, 61, 99, 149, 501}

InitFn ==
    /\ pc = "summarize"
    /\ input_type = "Text"
    /\ summary_length \in SummaryLengths \cup InvalidLengths
    /\ user_text = <<>>
    /\ url = <<>>
    /\ pdf_file = NoFile
    /\ digest_input = <<>>
    /\ text \in Strings(MaxLen)
    /\ summarizer = NoModel
    /\ max_input_words = 0
    /\ chunks = <<>>
    /\ summaries = <<>>
    /\ calls = <<>>
    /\ summary = <<>>
    /\ tts_calls = 0
    /\ audio_path = <<>>
    /\ rendered = {}
    /\ error = "none"

NextFn ==
    \/ GetSummarizer
    \/ GetSummarizerInvalid
    \/ PipelineFails
    \/ SelectLimit
    \/ BuildChunks
    \/ SummarizeChunk
    \/ SummarizeChunkFails
    \/ ReturnSummary

SpecFn == InitFn /\ [][NextFn]_vars

-----------------------------------------------------------------------------
(* The chunk-building lines of safe_generate_summary on their own, with any *)
(* positive word limit.                                                     *)

ChunkAlphabet == {"a", "b", " "}

ChunkTexts == UNION {[1..k -> ChunkAlphabet] : k \in 0..MaxChunkLen}

\* 2000 words
ScenarioText == WordsText(2000)

ProgramLimits == {StandardWords, LongContextWords}

ChunkInputs ==
    (ChunkTexts \X ((1..MaxLimit) \cup ProgramLimits))
    \cup ({ScenarioText, LongInput} \X ProgramLimits)

InitChunk ==
    /\ pc = "chunk"
    /\ input_type = "Text"
    /\ summary_length = 60
    /\ user_text = <<>>
    /\ url = <<>>
    /\ pdf_file = NoFile
    /\ digest_input = <<>>
    /\ \E in \in ChunkInputs : text = in[1] /\ max_input_words = in[2]
    /\ summarizer = NoModel
    /\ chunks = <<>>
    /\ summaries = <<>>
    /\ calls = <<>>
    /\ summary = <<>>
    /\ tts_calls = 0
    /\ audio_path = <<>>
    /\ rendered = {}
    /\ error = "none"

NextChunk == BuildChunks

SpecChunk == InitChunk /\ [][NextChunk]_vars


-----------------------------------------------------------------------------
(* Properties.                                                              *)

\* the words of the chunks cs[1..k], in chunk order
RECURSIVE WordsOfChunks(_, _)
WordsOfChunks(cs, k) ==
    IF k = 0 THEN <<>> ELSE WordsOfChunks(cs, k - 1) \o Split(cs[k])

\* parts[1..k], left to right, with one space between neighbours
RECURSIVE SpaceJoined(_, _)
SpaceJoined(parts, k) ==
    IF k = 0 THEN <<>>
    ELSE IF k = 1 THEN parts[1]
    ELSE SpaceJoined(parts, k - 1) \o <<" ">> \o parts[k]

\* the least q with q * d >= n
Ceil(n, d) == CHOOSE q \in 0..n : q * d >= n /\ (q = 0 \/ (q - 1) * d < n)

\* t is s without its leading and trailing whitespace
IsTrimOf(t, s) ==
    \E i \in 0..Len(s) : \E j \in i..Len(s) :
        /\ t = SubSeq(s, i + 1, j)
        /\ \A k \in (1..i) \cup ((j + 1)..Len(s)) : s[k] \in Whitespace
        /\ t # <<>> => t[1] \notin Whitespace /\ t[Len(t)] \notin Whitespace

\* safe_generate_summary has returned
Returned == pc \in {"render_summary", "audio", "done"}

\* the chunks are built
Chunked == pc = "loop" \/ Returned

\* C1: once the chunks are built, their words re-joined in chunk order with
\* single spaces are the whitespace-normalized text, for every text and
\* every positive word limit.
C1_ChunkingLossless ==
    Chunked =>
        Join(WordsOfChunks(chunks, Len(chunks))) = Join(Split(text))

\* C1 case: a text with irregular whitespace cut into more than one chunk
C1_Witness ==
    /\ Chunked
    /\ Len(chunks) = 2
    /\ text = <<" ", "a", " ", " ", "b", "a", " ">>

\* C2: the number of chunks is ceil(word_count / limit); a text without
\* words gives no chunk; 2000 words at limit 700 give chunks of 700, 700
\* and 600 words.
C2_ChunkCount ==
    Chunked =>
        /\ Len(chunks) = Ceil(Len(Split(text)), max_input_words)
        /\ Split(text) = <<>> => chunks = <<>>
        /\ (Len(Split(text)) = 2000 /\ max_input_words = 700) =>
              [k \in 1..Len(chunks) |-> Len(Split(chunks[k]))] = <<700, 700, 600>>

\* C2 case: the 2000-word text chunked at limit 700
C2_Witness ==
    /\ Chunked
    /\ Len(Split(text)) = 2000
    /\ max_input_words = 700
    /\ Len(chunks) = 3

\* C3: no chunk built, and no chunk passed to the summarizer, has more words
\* than the word limit selected for the active model.
C3_ChunkWithinLimit ==
    /\ \A k \in 1..Len(chunks) : Len(Split(chunks[k])) <= max_input_words
    /\ \A k \in 1..Len(calls) : Len(Split(calls[k].chunk)) <= max_input_words

\* C3 case: a chunk holding exactly the limit was passed to the summarizer
\* of the longest length, from a text that needed several chunks
C3_Witness ==
    /\ summary_length = 500
    /\ Len(chunks) > 1
    /\ \E k \in 1..Len(calls) : Len(Split(calls[k].chunk)) = max_input_words

\* C4: with length 500 the word limit used for chunking is strictly larger
\* than the limit used with lengths 60 and 150.
C4_LargeContextLimitLarger ==
    (Chunked /\ summary_length = 500) =>
        /\ max_input_words > select_max_input_words(get_summarizer(60).model)
        /\ max_input_words > select_max_input_words(get_summarizer(150).model)

\* C5: for a non-empty text, whitespace-only text included, the returned
\* summary is non-empty.
C5_SummaryNonEmpty ==
    (Returned /\ text # <<>>) => summary # <<>>

\* C6: when a URL or PDF yields no text, no summarizer is constructed or
\* invoked and no audio synthesis is attempted.
C6_NoTextStopsBeforeSummarizing ==
    (input_type \in {"URL", "PDF Upload"}
        /\ pc \notin {"idle", "extract_url", "extract_pdf"}
        /\ text = <<>>) =>
        /\ summarizer = NoModel
        /\ calls = <<>>
        /\ tts_calls = 0

\* C7: a length outside {60, 150, 500} ends in the ValueError with no model
\* chosen, nothing chunked and no chunk summarized; 60, 150 and 500 each
\* resolve to one fixed model, different from the other two.
C7_InvalidLengthRejected ==
    /\ (summary_length \notin {60, 150, 500} /\ pc # "summarize") =>
          /\ pc = "failed"
          /\ error = "ValueError"
          /\ summarizer = NoModel
          /\ max_input_words = 0
          /\ chunks = <<>>
          /\ calls = <<>>
    /\ summarizer # NoModel =>
          /\ summary_length = 60 => summarizer = ModelShort
          /\ summary_length = 150 => summarizer = ModelMedium
          /\ summary_length = 500 => summarizer = ModelLong
    /\ Cardinality({ModelShort, ModelMedium, ModelLong}) = 3

\* C7 case: the call with length 99 has raised
C7_Witness ==
    /\ summary_length = 99
    /\ pc = "failed"
    /\ error = "ValueError"

\* C8: a run that ended with an error shows neither the summary nor the
\* audio element nor the download.
C8_NoPartialOutputOnError ==
    error # "none" => rendered \cap {"summary", "audio", "download"} = {}

\* C9: every summarizer invocation has max_length = length, min_length =
\* max(20, floor(0.8 * length)), that is 48, 120 and 400, no sampling, and
\* min_length <= max_length.
C9_LengthBounds ==
    \A k \in 1..Len(calls) :
        LET c == calls[k]
            q == CHOOSE x \in 0..summary_length :
                    10 * x <= 8 * summary_length /\ 8 * summary_length < 10 * (x + 1)
        IN  /\ c.max_length = summary_length
            /\ c.min_length = IF q < 20 THEN 20 ELSE q
            /\ summary_length = 60 => c.min_length = 48
            /\ summary_length = 150 => c.min_length = 120
            /\ summary_length = 500 => c.min_length = 400
            /\ c.do_sample = FALSE
            /\ c.min_length <= c.max_length

\* C9 case: invocations were made for each of the three lengths; this one
\* is the second invocation of a run with length 500
C9_Witness ==
    /\ summary_length = 500
    /\ Len(calls) = 2
    /\ calls[2].min_length = 400

\* C10: the k-th invocation is for the k-th chunk, one invocation at a time;
\* each kept summary is the invocation's result without leading and trailing
\* whitespace; on return every chunk has been summarized exactly once and
\* the summary is the kept summaries in chunk order with single spaces.
C10_OneCallPerChunkInOrder ==
    /\ Len(calls) <= Len(chunks)
    /\ \A k \in 1..Len(calls) : calls[k].chunk = chunks[k]
    /\ \A k \in 1..Len(calls) : calls[k].raised => k = Len(calls)
    /\ Len(summaries) = Cardinality({k \in 1..Len(calls) : ~calls[k].raised})
    /\ \A k \in 1..Len(summaries) : IsTrimOf(summaries[k], calls[k].out)
    /\ Returned =>
          /\ Len(calls) = Len(chunks)
          /\ summary = SpaceJoined(summaries, Len(summaries))
          /\ Len(chunks) = 1 => IsTrimOf(summary, calls[1].out)

\* C10 case: three chunks summarized, a result with surrounding whitespace
\* among them
C10_Witness ==
    /\ Returned
    /\ Len(chunks) = 3
    /\ calls[2].out = <<" ", "s", "\n">>
    /\ summary = <<"s", " ", "s", " ", "s", " ", "t">>


=============================================================================
